---- MODULE Spec2Model ----
(***************************************************************************)
(* Model of WorkingSAPService (lab-03b-working-sap-agent.py and            *)
(* metadata-driven-sap-agent.py): the CSRF-token / ETag guarded PATCH of   *)
(* remove_delivery_block.                                                  *)
(*                                                                         *)
(* Text that the code processes character by character (cookies, order     *)
(* ids) is a sequence of one-character strings; opaque values (tokens,     *)
(* ETags, header names) are TLA+ strings; a response body is a sequence of *)
(* bytes.  Python None is None for opaque values and NoneText for text.    *)
(***************************************************************************)
EXTENDS Integers, Sequences, FiniteSets, TLC

None == "None"
NoneText == <<None>>

\* ------------------------------------------------------------------ bounds
MaxCookies == 2
\* calls of remove_delivery_block made by each of two concurrent threads
MaxCalls == 1
\* calls of handler in one behaviour
MaxHandlerCalls == 2
MaxEntityTypes == 2

\* ------------------------------------------------------- the input domains
CookieA == <<"a", "=", "1", ";", " ", "P", "a", "t", "h", "=", "/">>
CookieB == <<"b", "=", "2", ";", " ", "H", "t", "t", "p", "O", "n", "l", "y">>
SetCookieValues == {CookieA, CookieB}

RECURSIVE SeqsUpTo(_, _)
SeqsUpTo(S, n) ==
    IF n = 0 THEN {<<>>}
    ELSE LET shorter == SeqsUpTo(S, n - 1)
         IN  shorter \cup {Append(s, x) : s \in shorter, x \in S}

SetCookieLists == SeqsUpTo(SetCookieValues, MaxCookies)

TokenValues == {"", "tokA", "tokB"}
TokenStatuses == {200, 403}
ETagValues == {"", "W/abc123", "W/def456"}
ETagNames == {"ETag", "etag", "Etag", "ETAG"}
ReadStatuses == {200, 204, 403, 404}
PatchStatuses == {200, 204, 403, 412, 500}
\* b'' , b'{}' , 'e-acute' in UTF-8 , a byte no UTF-8 text contains
Bodies == {<<>>, <<123, 125>>, <<195, 169>>, <<255>>}
OrderIds == {<<"S", "O", "4", "2">>, <<" ", "7", "S", "O">>}
Reasons == {"Agent removal", "Approved by agent"}

\* ------------------------------------------- urllib3 response headers
\* HTTPHeaderDict: an ordered list of (name, value) fields, looked up without
\* regard to the letter-casing of the name.
LowerCase(name) ==
    CASE name \in {"ETag", "etag", "Etag", "ETAG"} -> "etag"
      [] name \in {"x-csrf-token", "X-CSRF-Token"} -> "x-csrf-token"
      [] name \in {"Set-Cookie", "set-cookie"} -> "set-cookie"
      [] OTHER -> name

HeadersGetAll(headers, name) ==
    LET hit(f) == LowerCase(f[1]) = LowerCase(name)
        fields == SelectSeq(headers, hit)
    IN  [i \in 1..Len(fields) |-> fields[i][2]]

HeadersGet(headers, name) ==
    LET all == HeadersGetAll(headers, name)
    IN  IF all = <<>> THEN None ELSE all[1]

\* (variant: a plain dict, looked up by the exact name)
HeadersGetExact(headers, name) ==
    LET hits == {i \in DOMAIN headers : headers[i][1] = name}
    IN  IF hits = {} THEN None
        ELSE headers[CHOOSE i \in hits : \A j \in hits : i <= j][2]

\* Python truthiness of an Optional[str]
Truthy(v) == v # None /\ v # ""

\* ----------------------------------------------- the service's responses
TransportError == [for |-> "any", raised |-> "TransportError"]
NoResponse == [for |-> "none"]

TokenHeaders(tok, cl) ==
    (IF tok = None THEN <<>> ELSE << <<"x-csrf-token", tok>> >>)
    \o [i \in 1..Len(cl) |-> <<"Set-Cookie", cl[i]>>]

TokenResponses ==
    {[for |-> "token", status |-> st, headers |-> TokenHeaders(tok, cl)] :
        st \in TokenStatuses, tok \in TokenValues \cup {None},
        cl \in SetCookieLists}

\* the entity document in the body of the read response: the order with the
\* delivery block reason '01', and the order without a block
EntityDocs == {"DeliveryBlockReason=01", "DeliveryBlockReason="}

ReadResponses ==
    {[for |-> "read", status |-> st, headers |-> <<>>, data |-> doc] :
        st \in ReadStatuses, doc \in EntityDocs}
    \cup
    {[for |-> "read", status |-> st, headers |-> << <<n, v>> >>, data |-> doc] :
        st \in ReadStatuses, n \in ETagNames, v \in ETagValues,
        doc \in EntityDocs}

PatchResponses ==
    {[for |-> "patch", status |-> st, data |-> b] :
        st \in PatchStatuses, b \in Bodies}

\* ---------------------------------------------------------- pure helpers
\* cookie.split(';')[0]
RECURSIVE SplitFirst(_)
SplitFirst(s) ==
    IF s = <<>> \/ Head(s) = ";" THEN <<>>
    ELSE <<Head(s)>> \o SplitFirst(Tail(s))

\* (variant: the separator without the space)
RECURSIVE JoinNoSpace(_)
JoinNoSpace(parts) ==
    IF parts = <<>> THEN <<>>
    ELSE IF Len(parts) = 1 THEN parts[1]
    ELSE parts[1] \o <<";">> \o JoinNoSpace(Tail(parts))

\* '; '.join(parts)
RECURSIVE Join(_)
Join(parts) ==
    IF parts = <<>> THEN <<>>
    ELSE IF Len(parts) = 1 THEN parts[1]
    ELSE parts[1] \o <<";", " ">> \o Join(Tail(parts))

\* '; '.join([cookie.split(';')[0] for cookie in cookies])
JoinCookies(cl) == Join([i \in 1..Len(cl) |-> SplitFirst(cl[i])])

\* s.replace('SO', '')
RECURSIVE RemoveSO(_)
RemoveSO(s) ==
    IF s = <<>> THEN <<>>
    ELSE IF Len(s) >= 2 /\ s[1] = "S" /\ s[2] = "O"
         THEN RemoveSO(SubSeq(s, 3, Len(s)))
         ELSE <<Head(s)>> \o RemoveSO(Tail(s))

\* s.strip()
RECURSIVE Strip(_)
Strip(s) ==
    IF s = <<>> THEN <<>>
    ELSE IF Head(s) = " " THEN Strip(Tail(s))
    ELSE IF s[Len(s)] = " " THEN Strip(SubSeq(s, 1, Len(s) - 1))
    ELSE s

\* str(order_id).replace('SO', '').strip()
CleanOrderId(o) == Strip(RemoveSO(o))

\* bytes.decode('utf-8'): the well-formedness of the byte sequence (lead byte
\* followed by the right number of continuation bytes)
IsCont(b) == b >= 128 /\ b <= 191

RECURSIVE Utf8Valid(_)
Utf8Valid(b) ==
    IF b = <<>> THEN TRUE
    ELSE IF b[1] <= 127 THEN Utf8Valid(Tail(b))
    ELSE IF b[1] >= 194 /\ b[1] <= 223
         THEN Len(b) >= 2 /\ IsCont(b[2]) /\ Utf8Valid(SubSeq(b, 3, Len(b)))
    ELSE IF b[1] >= 224 /\ b[1] <= 239
         THEN Len(b) >= 3 /\ IsCont(b[2]) /\ IsCont(b[3])
              /\ Utf8Valid(SubSeq(b, 4, Len(b)))
    ELSE IF b[1] >= 240 /\ b[1] <= 244
         THEN Len(b) >= 4 /\ IsCont(b[2]) /\ IsCont(b[3]) /\ IsCont(b[4])
              /\ Utf8Valid(SubSeq(b, 5, Len(b)))
    ELSE FALSE

\* the decoded text keeps the bytes it was decoded from
Decode(b) == <<"text", b>>

\* ------------------------------------------------------------ the requests
ServiceRoot ==
    [path |-> "/sap/opu/odata/sap/API_SALES_ORDER_SRV/", key |-> <<>>,
     query |-> "?$format=json"]
EntityUrl(key, query) ==
    [path |-> "/sap/opu/odata/sap/API_SALES_ORDER_SRV/A_SalesOrder",
     key |-> key, query |-> query]

\* (variant: the field name used before the fix noted in the source)
UpdateDataOldField == <<"DeliveryBlock", "">>

\* json.dumps({"DeliveryBlockReason": ""}).encode('utf-8')
UpdateData == <<"DeliveryBlockReason", "">>
NoBody == <<>>

\* get_headers: basic auth, content type and accept; the token and the cookie
\* string only for include_csrf with a truthy stored token
GetHeaders(include_csrf, tok, ck) ==
    LET base == [Authorization |-> "Basic", ContentType |-> "application/json",
                 Accept |-> "application/json"]
    IN  IF include_csrf /\ Truthy(tok)
        THEN base @@ [xcsrftoken |-> tok, Cookie |-> ck]
        ELSE base

HasHeader(headers, name) == name \in DOMAIN headers

\* headers = self.get_headers(); headers['x-csrf-token'] = 'fetch'
TokenRequest(tok, ck) ==
    [method |-> "GET", url |-> ServiceRoot,
     headers |-> [xcsrftoken |-> "fetch"] @@ GetHeaders(FALSE, tok, ck),
     body |-> NoBody]

ReadRequest(key, tok, ck) ==
    [method |-> "GET", url |-> EntityUrl(key, "?$format=json"),
     headers |-> GetHeaders(FALSE, tok, ck), body |-> NoBody]

\* (variant: the precondition matches any version instead of the stamp read)
PatchHeadersWildcard(tok, ck, tag) ==
    IF Truthy(tag)
    THEN [IfMatch |-> "*"] @@ GetHeaders(TRUE, tok, ck)
    ELSE GetHeaders(TRUE, tok, ck)

\* headers = self.get_headers(include_csrf=True)
\* if etag: headers['If-Match'] = etag
PatchHeaders(tok, ck, tag) ==
    IF Truthy(tag)
    THEN [IfMatch |-> tag] @@ GetHeaders(TRUE, tok, ck)
    ELSE GetHeaders(TRUE, tok, ck)

\* (variant: the PATCH is addressed with the id as the caller wrote it)
PatchRequestRawKey(key, tok, ck, tag) ==
    [method |-> "PATCH", url |-> EntityUrl(<<"S", "O">> \o key, ""),
     headers |-> PatchHeaders(tok, ck, tag), body |-> UpdateData]

PatchRequest(key, tok, ck, tag) ==
    [method |-> "PATCH", url |-> EntityUrl(key, ""),
     headers |-> PatchHeaders(tok, ck, tag), body |-> UpdateData]

\* ------------------------------------------------------------- the results
NoResult == [returned |-> FALSE]

Failure(prefix, status, text) ==
    [success |-> FALSE,
     error |-> [prefix |-> prefix, status |-> status, text |-> text]]

\* {'success': False, 'error': 'Failed to get CSRF token'}
TokenFailure == Failure("Failed to get CSRF token", <<>>, <<>>)
\* {'success': False, 'error': f'Failed to get order for ETag: {status}'}
ReadFailure(st) == Failure("Failed to get order for ETag: ", <<st>>, <<>>)
\* {'success': False, 'error': f'Update failed: {status} - {response_text}'}
UpdateFailure(st, text) == Failure("Update failed: ", <<st>>, text)
\* except Exception as e: {'success': False, 'error': str(e)}
ExceptionResult(e) == Failure(e, <<>>, <<>>)
\* {'success': True, 'message': f'... order {order_id}', 'reason': reason}
SuccessResult(o, r) ==
    [success |-> TRUE,
     message |-> [prefix |-> "Delivery block removed from order ", order |-> o],
     reason |-> r]

\* (variant: True is returned whether or not a token came back)
GetCsrfTokenResultAlwaysTrue(tok, ck, resp) ==
    IF resp.for = "any"
    THEN [csrf_token |-> tok, cookies |-> ck, ret |-> FALSE]
    ELSE LET t == HeadersGet(resp.headers, "x-csrf-token")
             cl == HeadersGetAll(resp.headers, "Set-Cookie")
         IN  IF Truthy(t)
             THEN [csrf_token |-> t,
                   cookies |-> IF cl # <<>> THEN JoinCookies(cl) ELSE ck,
                   ret |-> TRUE]
             ELSE [csrf_token |-> tok, cookies |-> ck, ret |-> TRUE]

\* (variant: a 403 without a token clears the stored token and cookies)
GetCsrfTokenResultClearing(tok, ck, resp) ==
    IF resp.for = "any"
    THEN [csrf_token |-> tok, cookies |-> ck, ret |-> FALSE]
    ELSE LET t == HeadersGet(resp.headers, "x-csrf-token")
             cl == HeadersGetAll(resp.headers, "Set-Cookie")
         IN  IF Truthy(t)
             THEN [csrf_token |-> t,
                   cookies |-> IF cl # <<>> THEN JoinCookies(cl) ELSE ck,
                   ret |-> TRUE]
             ELSE IF resp.status = 403
             THEN [csrf_token |-> None, cookies |-> NoneText, ret |-> FALSE]
             ELSE [csrf_token |-> tok, cookies |-> ck, ret |-> FALSE]

\* (variant: a failed acquisition forgets the token and cookies held)
GetCsrfTokenResultForgetful(tok, ck, resp) ==
    IF resp.for = "any"
    THEN [csrf_token |-> None, cookies |-> NoneText, ret |-> FALSE]
    ELSE LET t == HeadersGet(resp.headers, "x-csrf-token")
             cl == HeadersGetAll(resp.headers, "Set-Cookie")
         IN  IF Truthy(t)
             THEN [csrf_token |-> t,
                   cookies |-> IF cl # <<>> THEN JoinCookies(cl) ELSE ck,
                   ret |-> TRUE]
             ELSE [csrf_token |-> None, cookies |-> NoneText, ret |-> FALSE]

\* ---------------------------------------------------------- get_csrf_token
\* The stored token and cookies after the token GET was answered by resp,
\* and the value returned.
\* (variant: a token already held makes up for a response without one)
GetCsrfTokenResultReuse(tok, ck, resp) ==
    IF resp.for = "any"
    THEN [csrf_token |-> tok, cookies |-> ck, ret |-> FALSE]
    ELSE LET t == HeadersGet(resp.headers, "x-csrf-token")
             cl == HeadersGetAll(resp.headers, "Set-Cookie")
         IN  IF Truthy(t)
             THEN [csrf_token |-> t,
                   cookies |-> IF cl # <<>> THEN JoinCookies(cl) ELSE ck,
                   ret |-> TRUE]
             ELSE [csrf_token |-> tok, cookies |-> ck, ret |-> Truthy(tok)]

\* (variant: the cookies are replaced with every token, also by none)
GetCsrfTokenResultPaired(tok, ck, resp) ==
    IF resp.for = "any"
    THEN [csrf_token |-> tok, cookies |-> ck, ret |-> FALSE]
    ELSE LET t == HeadersGet(resp.headers, "x-csrf-token")
             cl == HeadersGetAll(resp.headers, "Set-Cookie")
         IN  IF Truthy(t)
             THEN [csrf_token |-> t,
                   cookies |-> IF cl # <<>> THEN JoinCookies(cl) ELSE NoneText,
                   ret |-> TRUE]
             ELSE [csrf_token |-> tok, cookies |-> ck, ret |-> FALSE]

GetCsrfTokenResult(tok, ck, resp) ==
    IF resp.for = "any"
    THEN [csrf_token |-> tok, cookies |-> ck, ret |-> FALSE]
    ELSE LET t == HeadersGet(resp.headers, "x-csrf-token")
             cl == HeadersGetAll(resp.headers, "Set-Cookie")
         IN  IF Truthy(t)
             THEN [csrf_token |-> t,
                   cookies |-> IF cl # <<>> THEN JoinCookies(cl) ELSE ck,
                   ret |-> TRUE]
             ELSE [csrf_token |-> tok, cookies |-> ck, ret |-> FALSE]

\* ---------------------------------------------------- remove_delivery_block
\* (variant: the value returned by get_csrf_token is not looked at)
AfterTokenUnchecked(ok) == [pc |-> "read", result |-> NoResult]

\* if not self.get_csrf_token(): return {... 'Failed to get CSRF token'}
AfterToken(ok) ==
    IF ok THEN [pc |-> "read", result |-> NoResult]
    ELSE [pc |-> "done", result |-> TokenFailure]

\* (variant: the three spellings are looked up as written)
ExtractEtagExact(headers) ==
    IF Truthy(HeadersGetExact(headers, "ETag"))
    THEN HeadersGetExact(headers, "ETag")
    ELSE IF Truthy(HeadersGetExact(headers, "etag"))
    THEN HeadersGetExact(headers, "etag")
    ELSE HeadersGetExact(headers, "Etag")

\* etag_response.headers.get('ETag') or .get('etag') or .get('Etag')
ExtractEtag(headers) ==
    IF Truthy(HeadersGet(headers, "ETag")) THEN HeadersGet(headers, "ETag")
    ELSE IF Truthy(HeadersGet(headers, "etag")) THEN HeadersGet(headers, "etag")
    ELSE HeadersGet(headers, "Etag")

\* (variant: the status of the read is not looked at)
AfterReadAnyStatus(resp) ==
    IF resp.for = "any"
    THEN [pc |-> "done", result |-> ExceptionResult(resp.raised), etag |-> None]
    ELSE [pc |-> "patch", result |-> NoResult,
          etag |-> ExtractEtag(resp.headers)]

\* (variant: only 404 counts as a failed read)
AfterReadOnly404(resp) ==
    IF resp.for = "any"
    THEN [pc |-> "done", result |-> ExceptionResult(resp.raised), etag |-> None]
    ELSE IF resp.status = 404
    THEN [pc |-> "done", result |-> ReadFailure(resp.status), etag |-> None]
    ELSE [pc |-> "patch", result |-> NoResult,
          etag |-> ExtractEtag(resp.headers)]

\* (variant: an exception of the read is swallowed and the call goes on)
AfterReadSwallow(resp) ==
    IF resp.for = "any"
    THEN [pc |-> "patch", result |-> NoResult, etag |-> None]
    ELSE IF resp.status # 200
    THEN [pc |-> "done", result |-> ReadFailure(resp.status), etag |-> None]
    ELSE [pc |-> "patch", result |-> NoResult,
          etag |-> ExtractEtag(resp.headers)]

\* if etag_response.status != 200: return {... 'Failed to get order for ETag'}
AfterRead(resp) ==
    IF resp.for = "any"
    THEN [pc |-> "done", result |-> ExceptionResult(resp.raised), etag |-> None]
    ELSE IF resp.status # 200
    THEN [pc |-> "done", result |-> ReadFailure(resp.status), etag |-> None]
    ELSE [pc |-> "patch", result |-> NoResult,
          etag |-> ExtractEtag(resp.headers)]

\* if response.status in [200, 204]: success
\* else: response_text = response.data.decode('utf-8'); 'Update failed: ...'
AfterPatch(resp, o, r) ==
    IF resp.for = "any" THEN ExceptionResult(resp.raised)
    ELSE IF resp.status \in {200, 204} THEN SuccessResult(o, r)
    ELSE IF Utf8Valid(resp.data)
    THEN UpdateFailure(resp.status, Decode(resp.data))
    ELSE ExceptionResult("UnicodeDecodeError")

\* --------------------------------------------------- the agent's tool
\* WorkingRealSAPAgent.remove_delivery_block: the message rendered from the
\* result of the service call
ToolRemoveDeliveryBlock(res, o, r) ==
    IF res.success
    THEN [kind |-> "success",
          prefix |-> "Delivery Block Removed Successfully!",
          order |-> o, reason |-> r]
    ELSE [kind |-> "failure",
          prefix |-> "Failed to remove delivery block from order ",
          order |-> o, error |-> res.error]

\* MetadataDrivenSAPAgent's remove_delivery_block tool
MetadataToolRemoveDeliveryBlock(res, o, r) ==
    IF res.success
    THEN [kind |-> "success",
          prefix |-> "SUCCESS: Delivery block removed from order ",
          order |-> o, reason |-> r]
    ELSE [kind |-> "failure",
          prefix |-> "FAILED: Could not remove delivery block from order ",
          order |-> o, error |-> res.error]

\* ------------------------------------------------ the read-only operations
NoAux == [op |-> "none"]

\* the bodies a read-only GET is answered with: a JSON document with the
\* envelope key 'd', a JSON document without it, bytes that are not JSON
JsonBodies == {"json-with-d", "json-without-d", "not-json"}
AuxResponses ==
    {[for |-> "aux", status |-> 200, data |-> b] : b \in JsonBodies}
    \cup {[for |-> "aux", status |-> 404, data |-> "not-json"]}

\* json.loads(response.data.decode('utf-8')).get('d', {})
JsonGetD(b) == IF b = "json-with-d" THEN "d" ELSE "{}"

\* test_connection: response.status == 200; False on an exception
TestConnectionRequest(tok, ck) ==
    [method |-> "GET", url |-> ServiceRoot,
     headers |-> GetHeaders(FALSE, tok, ck), body |-> NoBody]

TestConnectionResult(resp) ==
    IF resp.for = "any" THEN FALSE ELSE resp.status = 200

\* read_sales_order: GET A_SalesOrder('<clean id>')?$expand=to_Item&$format=json
ReadSalesOrderRequest(o, tok, ck) ==
    [method |-> "GET",
     url |-> EntityUrl(CleanOrderId(o), "?$expand=to_Item&$format=json"),
     headers |-> GetHeaders(FALSE, tok, ck), body |-> NoBody]

ReadSalesOrderResult(resp) ==
    IF resp.for = "any" THEN ExceptionResult(resp.raised)
    ELSE IF resp.status = 200
    THEN IF resp.data = "not-json" THEN ExceptionResult("JSONDecodeError")
         ELSE [success |-> TRUE, order_data |-> JsonGetD(resp.data)]
    ELSE Failure("Order not found: ", <<resp.status>>, <<>>)

\* execute_odata_query: the URL with the optional key, $expand and $select
EntitySets == {"A_SalesOrder"}
KeyValues == {NoneText, <<"4", "2">>}
ExpandLists == {<<>>, <<"to_Item">>}
SelectLists == {<<>>, <<"SalesOrder", "DeliveryBlockReason">>}

QueryParams(expand, select) ==
    (IF expand # <<>> THEN << <<"$expand", expand>> >> ELSE <<>>)
    \o (IF select # <<>> THEN << <<"$select", select>> >> ELSE <<>>)
    \o << <<"$format", <<"json">> >> >>

QueryRequest(entity_set, key_value, expand, select, tok, ck) ==
    [method |-> "GET",
     url |-> [path |-> "/sap/opu/odata/sap/API_SALES_ORDER_SRV/",
              entity_set |-> entity_set,
              key |-> IF key_value # NoneText /\ key_value # <<>>
                      THEN key_value ELSE NoneText,
              params |-> QueryParams(expand, select)],
     headers |-> GetHeaders(FALSE, tok, ck), body |-> NoBody]

QueryResult(resp) ==
    IF resp.for = "any" THEN ExceptionResult(resp.raised)
    ELSE IF resp.status = 200
    THEN IF resp.data = "not-json" THEN ExceptionResult("JSONDecodeError")
         ELSE [success |-> TRUE, data |-> JsonGetD(resp.data)]
    ELSE Failure("Query failed: ", <<resp.status>>, <<>>)

\* ------------------------------------------------------------------- state
VARIABLES
    csrf_token,     \* self.csrf_token
    cookies,        \* self.cookies
    pc,             \* where the call of remove_delivery_block stands
    order_id,       \* argument order_id
    reason,         \* argument reason
    clean_order_id, \* local clean_order_id
    etag,           \* local etag
    got_token,      \* get_csrf_token returned True in this call
    response,       \* the response received last in this call
    result,         \* the value returned by the call
    log,            \* the requests issued by this call, in order
    earlier_stamps, \* the stamps extracted by the calls before this one
    aux,            \* the last read-only operation: request, response, return
    \* two threads calling remove_delivery_block at the same time
    shared,         \* TRUE: both threads use one instance; FALSE: one each
    writers,        \* per instance: self.csrf_token and self.cookies
    calls,          \* per thread: where its call stands, its locals, its result
    entity_version, \* the service's version of the sales order
    \* the memory-enabled agent (sap_strands_intelligent)
    agent_state,    \* sap_agent.state: actor_id and session_id
    system_prompt,  \* the turns on_agent_initialized added to the system prompt
    memory,         \* the turns in the memory store, oldest first
    payload,        \* the payload of the last call of handler
    handler_result, \* what that call returned
    handler_calls,  \* calls of handler so far
    messages,       \* agent.messages: those added by the last call of handler
    store_failed,   \* positions in messages whose add_turns raised
    \* the two copies of WorkingSAPService driven side by side
    lab,            \* the writer of lab-03b-working-sap-agent.py
    md,             \* the writer of metadata-driven-sap-agent.py
    \* SAPMetadataParser and the construction of MetadataDrivenSAPAgent
    metadata,       \* self.metadata
    entities,       \* self.entities
    associations,   \* self.associations
    navigation_properties, \* self.navigation_properties
    metadata_response, \* the response to the metadata GET
    fetched,        \* what fetch_metadata returned
    constructed     \* how MetadataDrivenSAPAgent.__init__ ended

writer_vars == <<csrf_token, cookies, pc, order_id, reason, clean_order_id, etag,
                 got_token, response, result, log, earlier_stamps, aux>>

conc_vars == <<shared, writers, calls, entity_version>>

\* what the single-writer operations leave alone
handler_vars == <<agent_state, system_prompt, memory, payload, handler_result,
                  handler_calls, messages, store_failed>>

twin_vars == <<lab, md>>

meta_vars == <<metadata, entities, associations, navigation_properties,
               metadata_response, fetched, constructed>>

extra_vars == <<twin_vars, meta_vars>>

other_vars == <<conc_vars, handler_vars, extra_vars>>

vars == <<writer_vars, other_vars>>

self_vars == <<csrf_token, cookies>>

Threads == {1, 2}

NoRequest == [method |-> "none"]

\* a thread that has not entered remove_delivery_block
IdleCall ==
    [pc |-> "idle", n |-> 0, etag |-> None, result |-> NoResult,
     patch |-> NoRequest,
     own |-> [csrf_token |-> None, cookies |-> NoneText],
     reads |-> 0, patches |-> 0]

\* self.csrf_token = None; self.cookies = None
NewWriter == [csrf_token |-> None, cookies |-> NoneText]

ConcIdle ==
    /\ writers = [i \in Threads |-> NewWriter]
    /\ calls = [t \in Threads |-> IdleCall]
    /\ entity_version = 0

\* ACTOR_ID, SESSION_ID: the defaults of the environment lookups
ACTOR_ID == "sap_user_123"
SESSION_ID == "sap_session_001"

NoPayload == [given |-> FALSE]

\* state={"actor_id": ACTOR_ID, "session_id": SESSION_ID}; nothing loaded from
\* an empty memory store
HandlerIdle ==
    /\ agent_state = [actor_id |-> ACTOR_ID, session_id |-> SESSION_ID]
    /\ system_prompt = <<>>
    /\ memory = <<>>
    /\ payload = NoPayload
    /\ handler_result = NoResult
    /\ handler_calls = 0
    /\ messages = <<>>
    /\ store_failed = {}

\* a writer as __init__ leaves it, before any call
NewTwin ==
    [csrf_token |-> None, cookies |-> NoneText, pc |-> "idle",
     order_id |-> NoneText, reason |-> None, clean_order_id |-> NoneText,
     etag |-> None, result |-> NoResult, log |-> <<>>]

TwinIdle ==
    /\ lab = NewTwin
    /\ md = NewTwin

\* SAPMetadataParser.__init__ (the three dicts empty), with no agent
\* constructed yet
MetaIdle ==
    /\ metadata = NoneText
    /\ entities = <<>>
    /\ associations = <<>>
    /\ navigation_properties = <<>>
    /\ metadata_response = NoResponse
    /\ fetched = NoResult
    /\ constructed = "not yet"

WriterInit ==
    /\ csrf_token = None
    /\ cookies = NoneText
    /\ pc = "idle"
    /\ order_id = NoneText
    /\ reason = None
    /\ clean_order_id = NoneText
    /\ etag = None
    /\ got_token = FALSE
    /\ response = NoResponse
    /\ result = NoResult
    /\ log = <<>>
    /\ earlier_stamps = {}
    /\ aux = NoAux

Init ==
    /\ WriterInit
    /\ shared = FALSE
    /\ ConcIdle
    /\ HandlerIdle
    /\ TwinIdle
    /\ MetaIdle

\* remove_delivery_block(order_id, reason) is entered
Call(o, r) ==
    /\ pc \in {"idle", "done"}
    /\ pc' = "token"
    /\ order_id' = o
    /\ reason' = r
    /\ clean_order_id' = CleanOrderId(o)
    /\ etag' = None
    /\ got_token' = FALSE
    /\ response' = NoResponse
    /\ result' = NoResult
    /\ log' = <<>>
    /\ earlier_stamps' = earlier_stamps \cup (IF Truthy(etag) THEN {etag} ELSE {})
    /\ aux' = NoAux
    /\ UNCHANGED <<self_vars, other_vars>>

\* Step 1: self.get_csrf_token() and the branch on what it returned
GetCsrfTokenStep(resp) ==
    LET r == GetCsrfTokenResult(csrf_token, cookies, resp)
        nxt == AfterToken(r.ret)
    IN  /\ pc = "token"
        /\ log' = Append(log, TokenRequest(csrf_token, cookies))
        /\ csrf_token' = r.csrf_token
        /\ cookies' = r.cookies
        /\ got_token' = r.ret
        /\ response' = resp
        /\ pc' = nxt.pc
        /\ result' = nxt.result
        /\ UNCHANGED <<order_id, reason, clean_order_id, etag, earlier_stamps, aux, other_vars>>

GetCsrfToken == \E resp \in TokenResponses \cup {TransportError} : GetCsrfTokenStep(resp)

\* (variant: a stamp kept from an earlier call is used instead of the one read)
GetEtagStepStale(resp) ==
    LET nxt == AfterRead(resp)
    IN  /\ pc = "read"
        /\ log' = Append(log, ReadRequest(clean_order_id, csrf_token, cookies))
        /\ response' = resp
        /\ etag' = IF nxt.pc = "patch" /\ earlier_stamps # {}
                   THEN CHOOSE s \in earlier_stamps : TRUE
                   ELSE nxt.etag
        /\ pc' = nxt.pc
        /\ result' = nxt.result
        /\ UNCHANGED <<csrf_token, cookies, order_id, reason, clean_order_id,
                       got_token, earlier_stamps, aux, other_vars>>

\* Step 2: the entity GET and the extraction of the ETag
GetEtagStep(resp) ==
    LET nxt == AfterRead(resp)
    IN  /\ pc = "read"
        /\ log' = Append(log, ReadRequest(clean_order_id, csrf_token, cookies))
        /\ response' = resp
        /\ etag' = nxt.etag
        /\ pc' = nxt.pc
        /\ result' = nxt.result
        /\ UNCHANGED <<csrf_token, cookies, order_id, reason, clean_order_id,
                       got_token, earlier_stamps, aux, other_vars>>

GetEtag == \E resp \in ReadResponses \cup {TransportError} : GetEtagStep(resp)

\* Step 3: the PATCH and the classification of its response
PatchStep(resp) ==
    /\ pc = "patch"
    /\ log' = Append(log, PatchRequest(clean_order_id, csrf_token, cookies, etag))
    /\ response' = resp
    /\ result' = AfterPatch(resp, order_id, reason)
    /\ pc' = "done"
    /\ UNCHANGED <<csrf_token, cookies, order_id, reason, clean_order_id, etag,
                   got_token, earlier_stamps, aux, other_vars>>

Patch == \E resp \in PatchResponses \cup {TransportError} : PatchStep(resp)

\* Step 3 when self.cookies is None: headers['Cookie'] = None is refused by
\* http.client.putheader with a TypeError before anything is sent.  (A client
\* that accepts the None value is covered by Patch.)
PatchRefused ==
    /\ pc = "patch"
    /\ PatchHeaders(csrf_token, cookies, etag).Cookie = NoneText
    /\ response' = NoResponse
    /\ result' = ExceptionResult("TypeError")
    /\ pc' = "done"
    /\ UNCHANGED <<csrf_token, cookies, order_id, reason, clean_order_id, etag,
                   got_token, log, earlier_stamps, aux, other_vars>>

\* A read-only operation runs between calls of remove_delivery_block: it
\* issues req, is answered by resp and returns ret.
ReadOnly(op, req, resp, ret) ==
    /\ pc \in {"idle", "done"}
    /\ pc' = "idle"
    /\ aux' = [op |-> op, request |-> req, response |-> resp, ret |-> ret]
    /\ order_id' = NoneText
    /\ reason' = None
    /\ clean_order_id' = NoneText
    /\ etag' = None
    /\ got_token' = FALSE
    /\ response' = NoResponse
    /\ result' = NoResult
    /\ log' = <<>>
    /\ earlier_stamps' = earlier_stamps \cup (IF Truthy(etag) THEN {etag} ELSE {})
    /\ UNCHANGED other_vars

\* (variant: test_connection drops the session it finds)
TestConnectionStepResetting(resp) ==
    /\ ReadOnly("test_connection", TestConnectionRequest(csrf_token, cookies),
                resp, [connected |-> TestConnectionResult(resp)])
    /\ csrf_token' = None
    /\ cookies' = NoneText

TestConnectionStep(resp) ==
    /\ ReadOnly("test_connection", TestConnectionRequest(csrf_token, cookies),
                resp, [connected |-> TestConnectionResult(resp)])
    /\ UNCHANGED self_vars

TestConnection ==
    \E resp \in AuxResponses \cup {TransportError} : TestConnectionStep(resp)

ReadSalesOrderStep(o, resp) ==
    /\ ReadOnly("read_sales_order", ReadSalesOrderRequest(o, csrf_token, cookies),
                resp, ReadSalesOrderResult(resp))
    /\ UNCHANGED self_vars

ReadSalesOrder ==
    \E o \in OrderIds, resp \in AuxResponses \cup {TransportError} :
        ReadSalesOrderStep(o, resp)

ExecuteOdataQueryStep(es, kv, ex, sel, resp) ==
    /\ ReadOnly("execute_odata_query",
                QueryRequest(es, kv, ex, sel, csrf_token, cookies),
                resp, QueryResult(resp))
    /\ UNCHANGED self_vars

ExecuteOdataQuery ==
    \E es \in EntitySets, kv \in KeyValues, ex \in ExpandLists,
       sel \in SelectLists, resp \in AuxResponses \cup {TransportError} :
        ExecuteOdataQueryStep(es, kv, ex, sel, resp)

Next ==
    \/ \E o \in OrderIds, r \in Reasons : Call(o, r)
    \/ GetCsrfToken
    \/ GetEtag
    \/ Patch
    \/ PatchRefused
    \/ TestConnection
    \/ ReadSalesOrder
    \/ ExecuteOdataQuery

Spec == Init /\ [][Next]_vars

\* One call of remove_delivery_block on a new writer, from its entry to its
\* return.
UpdateNext ==
    \/ \E o \in OrderIds, r \in Reasons : pc = "idle" /\ Call(o, r)
    \/ GetCsrfToken
    \/ GetEtag
    \/ Patch
    \/ PatchRefused

\* Every request issued is answered or fails, and the call then goes on: the
\* code is sequential and each step follows the return of the one before.
FairSpec ==
    /\ Init
    /\ [][UpdateNext]_vars
    /\ WF_vars(GetCsrfToken)
    /\ WF_vars(GetEtag)
    /\ WF_vars(Patch \/ PatchRefused)

\* --------------------------------- two calls in flight on the same entity
\* The service of the concurrency contract: it answers every token request
\* with a token, every read with the stamp of the entity's version, and a
\* PATCH with 204 and a new version when If-Match names the current stamp,
\* with 412 otherwise (428 when no If-Match is sent).
StampNames == <<"W/1", "W/2", "W/3", "W/4", "W/5">>
StampOf(v) == StampNames[v + 1]

ServiceTokens == {"tokA", "tokB"}
ServiceCookieLists == {<<>>, <<CookieA>>, <<CookieB>>}

ServiceTokenResponses ==
    {[for |-> "token", status |-> 200, headers |-> TokenHeaders(tok, cl)] :
        tok \in ServiceTokens, cl \in ServiceCookieLists}

ServiceReadResponse(v) ==
    [for |-> "read", status |-> 200, headers |-> << <<"ETag", StampOf(v)>> >>,
     data |-> "DeliveryBlockReason=01"]

ServicePatchResponses(v, req) ==
    IF ~HasHeader(req.headers, "IfMatch")
    THEN {[for |-> "patch", status |-> 428, data |-> b] : b \in Bodies}
    ELSE IF req.headers.IfMatch = StampOf(v)
    THEN {[for |-> "patch", status |-> 204, data |-> <<>>]}
    ELSE {[for |-> "patch", status |-> 412, data |-> b] : b \in Bodies}

ServiceVersionAfter(v, resp) == IF resp.status = 204 THEN v + 1 ELSE v

\* both threads update the same sales order
ConcOrder == <<"S", "O", "4", "2">>
ConcReason == "Approved by agent"

\* the instance a thread calls: sap_service of the module, or one of its own
InstanceOf(t) == IF shared THEN 1 ELSE t

\* (variant: each call keeps the token and cookies of its own acquisition)
CallCredentialsOwn(t) == calls[t].own

\* self.csrf_token and self.cookies as get_headers(include_csrf=True) reads
\* them when the PATCH is built
CallCredentials(t) == writers[InstanceOf(t)]

CPatchRequest(t) ==
    PatchRequest(CleanOrderId(ConcOrder), CallCredentials(t).csrf_token,
                 CallCredentials(t).cookies, calls[t].etag)

ConcInit ==
    /\ WriterInit
    /\ shared \in BOOLEAN
    /\ ConcIdle
    /\ HandlerIdle
    /\ TwinIdle
    /\ MetaIdle

CCall(t) ==
    /\ calls[t].pc \in {"idle", "done"}
    /\ calls[t].n < MaxCalls
    /\ calls' = [calls EXCEPT ![t] =
                    [IdleCall EXCEPT !.pc = "token", !.n = calls[t].n + 1]]
    /\ UNCHANGED <<shared, writers, entity_version, writer_vars, handler_vars, extra_vars>>

CGetCsrfTokenStep(t, resp) ==
    LET w == writers[InstanceOf(t)]
        r == GetCsrfTokenResult(w.csrf_token, w.cookies, resp)
        nxt == AfterToken(r.ret)
    IN  /\ calls[t].pc = "token"
        /\ writers' = [writers EXCEPT ![InstanceOf(t)] =
                          [csrf_token |-> r.csrf_token, cookies |-> r.cookies]]
        /\ calls' = [calls EXCEPT ![t].pc = nxt.pc,
                                  ![t].result = nxt.result,
                                  ![t].own = [csrf_token |-> r.csrf_token,
                                              cookies |-> r.cookies]]
        /\ UNCHANGED <<shared, entity_version, writer_vars, handler_vars, extra_vars>>

CGetCsrfToken ==
    \E t \in Threads, resp \in ServiceTokenResponses : CGetCsrfTokenStep(t, resp)

CGetEtagStep(t) ==
    LET nxt == AfterRead(ServiceReadResponse(entity_version))
    IN  /\ calls[t].pc = "read"
        /\ calls' = [calls EXCEPT ![t].pc = nxt.pc,
                                  ![t].result = nxt.result,
                                  ![t].etag = nxt.etag,
                                  ![t].reads = calls[t].reads + 1]
        /\ UNCHANGED <<shared, writers, entity_version, writer_vars, handler_vars, extra_vars>>

CGetEtag == \E t \in Threads : CGetEtagStep(t)

CPatchStep(t, resp) ==
    /\ calls[t].pc = "patch"
    /\ calls' = [calls EXCEPT ![t].pc = "done",
                              ![t].patch = CPatchRequest(t),
                              ![t].patches = calls[t].patches + 1,
                              ![t].result = AfterPatch(resp, ConcOrder, ConcReason)]
    /\ entity_version' = ServiceVersionAfter(entity_version, resp)
    /\ UNCHANGED <<shared, writers, writer_vars, handler_vars, extra_vars>>

CPatch ==
    \E t \in Threads :
        \E resp \in ServicePatchResponses(entity_version, CPatchRequest(t)) :
            CPatchStep(t, resp)

\* headers['Cookie'] = None refused by http.client with a TypeError
CPatchRefusedStep(t) ==
    /\ calls[t].pc = "patch"
    /\ CPatchRequest(t).headers.Cookie = NoneText
    /\ calls' = [calls EXCEPT ![t].pc = "done",
                              ![t].result = ExceptionResult("TypeError")]
    /\ UNCHANGED <<shared, writers, entity_version, writer_vars, handler_vars, extra_vars>>

CPatchRefused == \E t \in Threads : CPatchRefusedStep(t)

ConcNext ==
    \/ \E t \in Threads : CCall(t)
    \/ CGetCsrfToken
    \/ CGetEtag
    \/ CPatch
    \/ CPatchRefused

ConcSpec == ConcInit /\ [][ConcNext]_vars


\* ------------------------------------------- handler and the memory hooks
Prompts == {"", "order 4062"}
SessionIds == {"s1"}
ActorIds == {"john_acme", "sarah_corp"}

\* a payload that is not a dict: payload.get raises
BadPayload == [given |-> TRUE, dict |-> FALSE]

Payloads ==
    {[prompt |-> m] : m \in Prompts}
    \cup {[prompt |-> m, actor_id |-> a] : m \in Prompts, a \in ActorIds}
    \cup {[prompt |-> m, session_id |-> x] : m \in Prompts, x \in SessionIds}
    \cup {[prompt |-> m, actor_id |-> a, session_id |-> x] :
            m \in Prompts, a \in ActorIds, x \in SessionIds}

\* payload.get(key, default)
PayloadGet(p, key, default) == IF key \in DOMAIN p THEN p[key] ELSE default

\* actor_id = payload.get("actor_id", "user")
RequestActor(p) == PayloadGet(p, "actor_id", "user")

\* memory_session_id = session_id or "agentcore_managed_session"
RequestSession(p) ==
    IF Truthy(PayloadGet(p, "session_id", None))
    THEN p.session_id
    ELSE "agentcore_managed_session"

\* get_last_k_turns(k=5)
LastK == 5
LastKTurns(turns, k) ==
    IF Len(turns) <= k THEN turns
    ELSE SubSeq(turns, Len(turns) - k + 1, Len(turns))

\* what the agent does with the message: it replies, replies after using a
\* tool, or raises before or after the tool use; and what the memory store
\* does with get_last_k_turns
AgentOutcomes == {"reply", "tool", "raise", "tool raise"}
MemoryOutcomes == {"ok", "error"}

UserMessage(text) == [role |-> "user", content |-> <<[text |-> text]>>]
AssistantMessage(text) == [role |-> "assistant", content |-> <<[text |-> text]>>]
ToolUseMessage == [role |-> "assistant", content |-> <<[toolUse |-> "get_sales_order_details"]>>]

\* response = sap_agent(message): the messages the agent adds to agent.messages,
\* each followed by on_message_added
AgentRun(prompt, agent) ==
    IF agent = "reply" THEN <<UserMessage(prompt), AssistantMessage("reply")>>
    ELSE IF agent = "tool"
    THEN <<UserMessage(prompt), ToolUseMessage,
           [role |-> "user", content |-> <<[toolResult |-> "success"]>>],
           AssistantMessage("reply")>>
    ELSE IF agent = "tool raise" THEN <<UserMessage(prompt), ToolUseMessage>>
    ELSE <<UserMessage(prompt)>>

\* user_session = create_memory_session(actor_id=ACTOR_ID, session_id=SESSION_ID):
\* the one memory session of the hook provider, whatever the request
MemorySession(p) == [actor_id |-> ACTOR_ID, session_id |-> SESSION_ID]

\* A stored turn: the memory session it is in, its role and text; request is
\* the (actor, session) of the call of handler during which it was stored.
Turn(p, role, text) ==
    [actor_id |-> MemorySession(p).actor_id,
     session_id |-> MemorySession(p).session_id,
     role |-> role, text |-> text,
     request |-> [actor_id |-> RequestActor(p), session_id |-> RequestSession(p)]]

\* messages[-1]["content"][0].get("text"); None when there is no such key
FirstText(m) == PayloadGet(m.content[1], "text", None)

\* (variant: every message is stored as the user's)
MessageRoleAlwaysUser(m) == "USER"

\* MessageRole.USER if messages[-1]["role"] == "user" else MessageRole.ASSISTANT
MessageRole(m) == IF m.role = "user" THEN "USER" ELSE "ASSISTANT"

\* on_message_added: the last message is stored when its first block has a
\* text that is not empty and add_turns does not raise
OnMessageAdded(turns, p, m, raises) ==
    IF Truthy(FirstText(m)) /\ ~raises
    THEN Append(turns, Turn(p, MessageRole(m), FirstText(m)))
    ELSE turns

\* on_message_added after each of the messages msgs[from..], in the order they
\* are added; failing holds the positions at which add_turns raises
RECURSIVE StoreAll(_, _, _, _, _)
StoreAll(turns, p, msgs, failing, from) ==
    IF from > Len(msgs) THEN turns
    ELSE StoreAll(OnMessageAdded(turns, p, msgs[from], from \in failing),
                  p, msgs, failing, from + 1)

\* the positions at which add_turns is called and raises
StoreFailed(msgs, failing) ==
    {i \in failing \cap DOMAIN msgs : Truthy(FirstText(msgs[i]))}

\* sap_agent.state.set(...) when the argument is not empty
StateAfter(st, p) ==
    [session_id |-> RequestSession(p),
     actor_id |-> IF RequestActor(p) # "" THEN RequestActor(p) ELSE st.actor_id]

\* (variant: a failed store fails the call)
ProcessMessageWithMemoryStrict(msgs, raised, failed) ==
    IF raised \/ failed # {}
    THEN [error |-> "Error processing message with memory: "]
    ELSE msgs[Len(msgs)]

\* process_message_with_memory: response.message, or the error text when the
\* agent raised; the hooks keep their exceptions to themselves
ProcessMessageWithMemory(msgs, raised, failed) ==
    IF raised
    THEN [error |-> "Error processing message with memory: "]
    ELSE msgs[Len(msgs)]

\* return {"response": response}
HandlerReturn(p, resp) == [response |-> resp]

\* handler(payload) with a payload that is not a dict
HandlerBadPayload ==
    /\ handler_calls < MaxHandlerCalls
    /\ handler_calls' = handler_calls + 1
    /\ payload' = BadPayload
    /\ handler_result' = [response |-> [error |-> "Error: "]]
    /\ UNCHANGED <<agent_state, system_prompt, memory, messages, store_failed,
                   writer_vars, conc_vars, extra_vars>>

\* handler(payload): process_message_with_memory, the agent, on_message_added
\* after every message, the return
HandlerStep(p, agent, failing) ==
    LET msgs == AgentRun(p.prompt, agent)
    IN  /\ handler_calls < MaxHandlerCalls
        /\ handler_calls' = handler_calls + 1
        /\ payload' = p
        /\ agent_state' = StateAfter(agent_state, p)
        /\ messages' = msgs
        /\ store_failed' = StoreFailed(msgs, failing)
        /\ memory' = StoreAll(memory, p, msgs, failing, 1)
        /\ handler_result' =
              HandlerReturn(p, ProcessMessageWithMemory(msgs,
                                   agent \in {"raise", "tool raise"},
                                                        StoreFailed(msgs, failing)))
        /\ UNCHANGED <<system_prompt, writer_vars, conc_vars, extra_vars>>

Handler ==
    \E p \in Payloads, agent \in AgentOutcomes :
        \E failing \in SUBSET DOMAIN AgentRun(p.prompt, agent) :
            HandlerStep(p, agent, failing)

\* The process starts again: create_intelligent_sap_agent builds the agent and
\* on_agent_initialized loads the last turns of the memory session.
AgentInitializedStep(mem) ==
    /\ handler_calls > 0
    /\ agent_state' = [actor_id |-> ACTOR_ID, session_id |-> SESSION_ID]
    /\ system_prompt' = IF mem = "ok" THEN LastKTurns(memory, LastK) ELSE <<>>
    /\ payload' = NoPayload
    /\ handler_result' = NoResult
    /\ messages' = <<>>
    /\ store_failed' = {}
    /\ UNCHANGED <<memory, handler_calls, writer_vars, conc_vars, extra_vars>>

AgentInitialized == \E mem \in MemoryOutcomes : AgentInitializedStep(mem)

HandlerNext ==
    \/ HandlerBadPayload
    \/ Handler
    \/ AgentInitialized

HandlerSpec == Init /\ [][HandlerNext]_vars


\* ------------------------------- the two copies of the writer side by side
\* One call of remove_delivery_block of lab-03b-working-sap-agent.py on the
\* writer w, up to its next request: the same operators as the steps above.
LabCall(w, o, r) ==
    [w EXCEPT !.pc = "token", !.order_id = o, !.reason = r,
              !.clean_order_id = CleanOrderId(o), !.etag = None,
              !.result = NoResult, !.log = <<>>]

LabStep(w, resp, refused) ==
    IF w.pc = "token"
    THEN LET r == GetCsrfTokenResult(w.csrf_token, w.cookies, resp)
             nxt == AfterToken(r.ret)
         IN  [w EXCEPT !.csrf_token = r.csrf_token, !.cookies = r.cookies,
                       !.pc = nxt.pc, !.result = nxt.result,
                       !.log = Append(w.log, TokenRequest(w.csrf_token, w.cookies))]
    ELSE IF w.pc = "read"
    THEN LET nxt == AfterRead(resp)
         IN  [w EXCEPT !.pc = nxt.pc, !.result = nxt.result, !.etag = nxt.etag,
                       !.log = Append(w.log, ReadRequest(w.clean_order_id,
                                                         w.csrf_token, w.cookies))]
    ELSE IF w.pc = "patch"
    THEN IF refused /\ w.cookies = NoneText
         THEN [w EXCEPT !.pc = "done", !.result = ExceptionResult("TypeError")]
         ELSE [w EXCEPT !.pc = "done",
                        !.result = AfterPatch(resp, w.order_id, w.reason),
                        !.log = Append(w.log, PatchRequest(w.clean_order_id,
                                          w.csrf_token, w.cookies, w.etag))]
    ELSE w

\* The copy in metadata-driven-sap-agent.py, operator by operator.
\* get_headers (lines 169-179)
MdGetHeaders(include_csrf, tok, ck) ==
    LET base == [Authorization |-> "Basic", ContentType |-> "application/json",
                 Accept |-> "application/json"]
    IN  IF include_csrf /\ Truthy(tok)
        THEN base @@ [xcsrftoken |-> tok, Cookie |-> ck]
        ELSE base

\* get_csrf_token (lines 181-201)
MdGetCsrfTokenResult(tok, ck, resp) ==
    IF resp.for = "any"
    THEN [csrf_token |-> tok, cookies |-> ck, ret |-> FALSE]
    ELSE LET t == HeadersGet(resp.headers, "x-csrf-token")
             cl == HeadersGetAll(resp.headers, "Set-Cookie")
         IN  IF Truthy(t)
             THEN [csrf_token |-> t,
                   cookies |-> IF cl # <<>>
                               THEN Join([i \in 1..Len(cl) |-> SplitFirst(cl[i])])
                               ELSE ck,
                   ret |-> TRUE]
             ELSE [csrf_token |-> tok, cookies |-> ck, ret |-> FALSE]

\* remove_delivery_block (lines 254-314)
MdExtractEtag(headers) ==
    IF Truthy(HeadersGet(headers, "ETag")) THEN HeadersGet(headers, "ETag")
    ELSE IF Truthy(HeadersGet(headers, "etag")) THEN HeadersGet(headers, "etag")
    ELSE HeadersGet(headers, "Etag")

\* a failure result with the error text e
MdException(e) ==
    [success |-> FALSE, error |-> [prefix |-> e, status |-> <<>>, text |-> <<>>]]

\* (variant: this copy takes every 2xx read as read)
MdAfterReadAny2xx(resp) ==
    IF resp.for = "any"
    THEN [pc |-> "done", result |-> MdException(resp.raised), etag |-> None]
    ELSE IF ~(resp.status \in 200..299)
    THEN [pc |-> "done",
          result |-> [success |-> FALSE,
                      error |-> [prefix |-> "Failed to get order for ETag: ",
                                 status |-> <<resp.status>>, text |-> <<>>]],
          etag |-> None]
    ELSE [pc |-> "patch", result |-> NoResult,
          etag |-> MdExtractEtag(resp.headers)]

MdAfterRead(resp) ==
    IF resp.for = "any"
    THEN [pc |-> "done", result |-> MdException(resp.raised), etag |-> None]
    ELSE IF resp.status # 200
    THEN [pc |-> "done",
          result |-> [success |-> FALSE,
                      error |-> [prefix |-> "Failed to get order for ETag: ",
                                 status |-> <<resp.status>>, text |-> <<>>]],
          etag |-> None]
    ELSE [pc |-> "patch", result |-> NoResult,
          etag |-> MdExtractEtag(resp.headers)]

MdPatchRequest(key, tok, ck, tag) ==
    [method |-> "PATCH",
     url |-> [path |-> "/sap/opu/odata/sap/API_SALES_ORDER_SRV/A_SalesOrder",
              key |-> key, query |-> ""],
     headers |-> IF Truthy(tag)
                 THEN [IfMatch |-> tag] @@ MdGetHeaders(TRUE, tok, ck)
                 ELSE MdGetHeaders(TRUE, tok, ck),
     body |-> <<"DeliveryBlockReason", "">>]

MdAfterPatch(resp, o, r) ==
    IF resp.for = "any" THEN MdException(resp.raised)
    ELSE IF resp.status \in {200, 204}
    THEN [success |-> TRUE,
          message |-> [prefix |-> "Delivery block removed from order ",
                       order |-> o],
          reason |-> r]
    ELSE IF Utf8Valid(resp.data)
    THEN [success |-> FALSE,
          error |-> [prefix |-> "Update failed: ", status |-> <<resp.status>>,
                     text |-> Decode(resp.data)]]
    ELSE MdException("UnicodeDecodeError")

MdCall(w, o, r) ==
    [w EXCEPT !.pc = "token", !.order_id = o, !.reason = r,
              !.clean_order_id = Strip(RemoveSO(o)), !.etag = None,
              !.result = NoResult, !.log = <<>>]

MdStep(w, resp, refused) ==
    IF w.pc = "token"
    THEN LET r == MdGetCsrfTokenResult(w.csrf_token, w.cookies, resp)
             nxt == IF r.ret THEN [pc |-> "read", result |-> NoResult]
                    ELSE [pc |-> "done", result |-> MdException("Failed to get CSRF token")]
         IN  [w EXCEPT !.csrf_token = r.csrf_token, !.cookies = r.cookies,
                       !.pc = nxt.pc, !.result = nxt.result,
                       !.log = Append(w.log,
                           [method |-> "GET", url |-> ServiceRoot,
                            headers |-> [xcsrftoken |-> "fetch"]
                                @@ MdGetHeaders(FALSE, w.csrf_token, w.cookies),
                            body |-> NoBody])]
    ELSE IF w.pc = "read"
    THEN LET nxt == MdAfterRead(resp)
         IN  [w EXCEPT !.pc = nxt.pc, !.result = nxt.result, !.etag = nxt.etag,
                       !.log = Append(w.log,
                           [method |-> "GET",
                            url |-> [path |-> "/sap/opu/odata/sap/API_SALES_ORDER_SRV/A_SalesOrder",
                                     key |-> w.clean_order_id,
                                     query |-> "?$format=json"],
                            headers |-> MdGetHeaders(FALSE, w.csrf_token, w.cookies),
                            body |-> NoBody])]
    ELSE IF w.pc = "patch"
    THEN IF refused /\ w.cookies = NoneText
         THEN [w EXCEPT !.pc = "done", !.result = MdException("TypeError")]
         ELSE [w EXCEPT !.pc = "done",
                        !.result = MdAfterPatch(resp, w.order_id, w.reason),
                        !.log = Append(w.log, MdPatchRequest(w.clean_order_id,
                                          w.csrf_token, w.cookies, w.etag))]
    ELSE w

\* both copies are called with the same arguments
TwinCall(o, r) ==
    /\ lab.pc \in {"idle", "done"}
    /\ lab' = LabCall(lab, o, r)
    /\ md' = MdCall(md, o, r)
    /\ UNCHANGED <<writer_vars, conc_vars, handler_vars, meta_vars>>

\* both copies get the same response to their next request; refused says
\* whether the HTTP client refuses a Cookie header of None
TwinRespond(resp, refused) ==
    /\ lab.pc \in {"token", "read", "patch"}
    /\ lab' = LabStep(lab, resp, refused)
    /\ md' = MdStep(md, resp, refused)
    /\ UNCHANGED <<writer_vars, conc_vars, handler_vars, meta_vars>>

TwinNext ==
    \/ \E o \in OrderIds, r \in Reasons : TwinCall(o, r)
    \/ \E resp \in {TransportError}
                     \cup (IF lab.pc = "token" THEN TokenResponses
                           ELSE IF lab.pc = "read" THEN ReadResponses
                           ELSE PatchResponses),
          refused \in BOOLEAN :
          TwinRespond(resp, refused)

TwinSpec == Init /\ [][TwinNext]_vars


\* ------------------------------------------------- SAPMetadataParser
\* Names are texts, one character per element, as they are joined into the
\* lookup key.
EntityNames == {<<"A">>, <<"B">>}

\* the NavigationProperty elements an EntityType element can hold
NavigationPropertyElements ==
    {[Name |-> <<"x">>, Relationship |-> "r1", ToRole |-> "t1"],
     [Name |-> <<"x">>, Relationship |-> "r2", ToRole |-> "t2"],
     [Name |-> <<"y">>, Relationship |-> "r1", ToRole |-> "t1"]}

\* the EntityType elements: a name, one Property and up to two
\* NavigationProperty elements
EntityTypeElements ==
    {[Name |-> e,
      Property |-> <<[Name |-> "SalesOrder", Type |-> "Edm.String"]>>,
      NavigationProperty |-> ns] :
        e \in EntityNames,
        ns \in {<<>>} \cup {<<a>> : a \in NavigationPropertyElements}
                     \cup {<<a, b>> : a, b \in NavigationPropertyElements}}

\* the lists of at most n elements of S
RECURSIVE ListsUpTo(_, _)
ListsUpTo(S, n) ==
    IF n = 0 THEN {<<>>}
    ELSE ListsUpTo(S, n - 1)
         \cup {Append(l, x) : l \in {m \in ListsUpTo(S, n - 1) : Len(m) = n - 1},
                              x \in S}

\* What ET.fromstring makes of the decoded text: a ParseError, a tree without
\* an edm:Schema element, or a tree whose first Schema holds these EntityType
\* and Association elements in document order.
Malformed == [tree |-> "ParseError"]
Schemas ==
    {[tree |-> "Schema", EntityType |-> ets, Association |-> as] :
        ets \in ListsUpTo(EntityTypeElements, MaxEntityTypes),
        as \in {<<>>,
                <<[Name |-> "r1",
                   End |-> <<[Role |-> "t1", Type |-> "B",
                              Multiplicity |-> "*"]>>]>>}}

\* the responses to the metadata GET; the body is given by its first bytes
\* and the document they begin
MetadataResponses ==
    {[for |-> "metadata", status |-> st, data |-> d] :
        st \in {200, 404},
        d \in {[bytes |-> <<255>>, xml |-> Malformed]}
              \cup {[bytes |-> <<60>>, xml |-> x] :
                       x \in {Malformed, [tree |-> "no Schema"]} \cup Schemas}}

\* f"{entity_name}.{nav_name}"
LookupKey(entity_name, nav_name) == entity_name \o <<".">> \o nav_name

\* d[k] = v on a dict
DictSet(d, k, v) == (k :> v) @@ d

\* the loop over the NavigationProperty elements of one EntityType, from
\* position from: the parser record pr with the entries appended and stored
RECURSIVE ParseNavigationProperties(_, _, _, _)
ParseNavigationProperties(pr, entity_name, navs, from) ==
    IF from > Len(navs) THEN pr
    ELSE ParseNavigationProperties(
            [pr EXCEPT
                !.entities[entity_name].navigation_properties =
                    Append(@, [name |-> navs[from].Name,
                               relationship |-> navs[from].Relationship,
                               to_role |-> navs[from].ToRole]),
                !.navigation_properties =
                    DictSet(@, LookupKey(entity_name, navs[from].Name),
                            [from_entity |-> entity_name,
                             nav_property |-> navs[from].Name,
                             relationship |-> navs[from].Relationship,
                             to_role |-> navs[from].ToRole])],
            entity_name, navs, from + 1)

\* one EntityType element: its entry in self.entities is made anew, then its
\* properties and navigation properties are walked
ParseEntityType(pr, et) ==
    ParseNavigationProperties(
        [pr EXCEPT !.entities =
            DictSet(@, et.Name,
                    [properties |-> [i \in DOMAIN et.Property |->
                                        [name |-> et.Property[i].Name,
                                         type |-> et.Property[i].Type]],
                     navigation_properties |-> <<>>])],
        et.Name, et.NavigationProperty, 1)

RECURSIVE ParseEntityTypes(_, _, _)
ParseEntityTypes(pr, ets, from) ==
    IF from > Len(ets) THEN pr
    ELSE ParseEntityTypes(ParseEntityType(pr, ets[from]), ets, from + 1)

RECURSIVE ParseAssociations(_, _, _)
ParseAssociations(pr, as, from) ==
    IF from > Len(as) THEN pr
    ELSE ParseAssociations(
            [pr EXCEPT !.associations =
                DictSet(@, as[from].Name,
                        [ends |-> [i \in DOMAIN as[from].End |->
                                      [role |-> as[from].End[i].Role,
                                       entity_type |-> as[from].End[i].Type,
                                       multiplicity |-> as[from].End[i].Multiplicity]]])],
            as, from + 1)

\* _parse_xml_metadata: nothing is changed when ET.fromstring raises or there
\* is no Schema; the exception does not leave the method
ParseXmlMetadata(pr, xml) ==
    IF xml.tree # "Schema" THEN pr
    ELSE ParseAssociations(ParseEntityTypes(pr, xml.EntityType, 1),
                           xml.Association, 1)

\* (variant: a document that cannot be parsed makes fetch_metadata fail)
FetchMetadataStrict(pr, resp) ==
    IF resp.for = "any" THEN [parser |-> pr, ret |-> FALSE]
    ELSE IF resp.status = 200 /\ Utf8Valid(resp.data.bytes)
                              /\ resp.data.xml.tree = "Schema"
    THEN [parser |-> ParseXmlMetadata([pr EXCEPT !.metadata = Decode(resp.data.bytes)],
                                      resp.data.xml),
          ret |-> TRUE]
    ELSE [parser |-> pr, ret |-> FALSE]

\* fetch_metadata on the parser pr with the response resp to its GET: the
\* parser afterwards and the value returned
FetchMetadata(pr, resp) ==
    IF resp.for = "any" THEN [parser |-> pr, ret |-> FALSE]
    ELSE IF resp.status = 200
    THEN IF Utf8Valid(resp.data.bytes)
         THEN [parser |-> ParseXmlMetadata(
                              [pr EXCEPT !.metadata = Decode(resp.data.bytes)],
                              resp.data.xml),
               ret |-> TRUE]
         ELSE [parser |-> pr, ret |-> FALSE]
    ELSE [parser |-> pr, ret |-> FALSE]

\* MetadataDrivenSAPAgent.__init__: a new parser, fetch_metadata, and the
\* exception when it returned False
Construct(resp) ==
    LET f == FetchMetadata([metadata |-> NoneText, entities |-> <<>>,
                            associations |-> <<>>,
                            navigation_properties |-> <<>>], resp)
    IN  /\ constructed = "not yet"
        /\ metadata_response' = resp
        /\ metadata' = f.parser.metadata
        /\ entities' = f.parser.entities
        /\ associations' = f.parser.associations
        /\ navigation_properties' = f.parser.navigation_properties
        /\ fetched' = [returned |-> TRUE, value |-> f.ret]
        /\ constructed' = IF f.ret THEN "proceeds"
                          ELSE "raised: Failed to fetch SAP metadata"
        /\ UNCHANGED <<writer_vars, conc_vars, handler_vars, twin_vars>>

\* the agent is constructed once, in main
MetaNext ==
    /\ constructed = "not yet"
    /\ \E resp \in MetadataResponses \cup {TransportError} : Construct(resp)

MetaSpec == Init /\ [][MetaNext]_vars


\* ======================================================== the claims
\* what the claims say of the requests and responses, stated on the wire
IsPatch(req) == req.method = "PATCH"
IsTokenGet(req) ==
    /\ req.method = "GET"
    /\ req.url = ServiceRoot
    /\ HasHeader(req.headers, "xcsrftoken")
    /\ req.headers.xcsrftoken = "fetch"
IsEntityGet(req) ==
    /\ req.method = "GET"
    /\ req.url.path = "/sap/opu/odata/sap/API_SALES_ORDER_SRV/A_SalesOrder"
SentPatch == \E i \in DOMAIN log : IsPatch(log[i])
CountOf(P(_)) == Cardinality({i \in DOMAIN log : P(log[i])})
Answered(kind) == response.for = kind

\* the stamp the service put in the read response, under whatever casing of
\* the header name; None when there is no ETag field or it is empty
StampSent(resp) ==
    LET hits == {i \in DOMAIN resp.headers :
                    /\ resp.headers[i][1] \in ETagNames
                    /\ resp.headers[i][2] # ""}
    IN  IF hits = {} THEN None ELSE resp.headers[CHOOSE i \in hits : TRUE][2]

\* the step taken issues a PATCH
IssuesPatch == Len(log') = Len(log) + 1 /\ IsPatch(log'[Len(log')])

\* C1: a PATCH is issued only in a call whose get_csrf_token returned True;
\* when it returned False the call has returned the token failure after the
\* token GET alone (no entity GET, no PATCH).
C1_PatchOnlyAfterToken ==
    /\ SentPatch => got_token
    /\ (pc \in {"read", "patch", "done"} /\ ~got_token)
          => /\ pc = "done"
             /\ result = TokenFailure
             /\ Len(log) = 1
             /\ IsTokenGet(log[1])

C1_Witness == pc = "done" /\ SentPatch /\ got_token

\* C2: when the entity read returned a stamp, the PATCH of that call carries
\* If-Match with exactly that stamp.
C2_IfMatchIsStamp ==
    [][(IssuesPatch /\ Answered("read") /\ StampSent(response) # None)
          => /\ HasHeader(log'[Len(log')].headers, "IfMatch")
             /\ log'[Len(log')].headers.IfMatch = StampSent(response)]_vars

C2_Witness ==
    /\ pc = "done"
    /\ SentPatch
    /\ HasHeader(log[Len(log)].headers, "IfMatch")
    /\ log[Len(log)].headers.IfMatch = "W/abc123"

\* C3 as stated: a PATCH is issued only by a call that obtained both a token
\* and a stamp; a read without a stamp prevents the write.
C3_Original == SentPatch => (got_token /\ Truthy(etag))

\* C3 as amended: a PATCH is issued only by a call that obtained a token and
\* whose read of the same entity was answered 200; it then carries If-Match
\* exactly when a stamp was extracted; a call that returned the token failure
\* or the read failure issued no PATCH.
C3_PatchNeedsTokenAndRead ==
    /\ pc = "patch" => /\ got_token
                       /\ Answered("read")
                       /\ response.status = 200
    /\ SentPatch => /\ got_token
                    /\ Len(log) = 3
                    /\ IsTokenGet(log[1])
                    /\ IsEntityGet(log[2])
                    /\ log[2].url.key = log[3].url.key
                    /\ HasHeader(log[3].headers, "IfMatch") <=> Truthy(etag)
    /\ (pc = "done" /\ (~got_token \/ Answered("read"))) => ~SentPatch

C3_Witness ==
    /\ pc = "done"
    /\ SentPatch
    /\ ~HasHeader(log[Len(log)].headers, "IfMatch")
    /\ result.success

\* C4: a token response with status 403 and no x-csrf-token field makes
\* get_csrf_token fail and the call return the token failure; no PATCH.
NoTokenField(resp) ==
    \A i \in DOMAIN resp.headers : resp.headers[i][1] # "x-csrf-token"

C4_Token403 ==
    (Answered("token") /\ response.status = 403 /\ NoTokenField(response))
        => /\ ~got_token
           /\ pc = "done"
           /\ result = TokenFailure
           /\ ~SentPatch

C4_Witness ==
    /\ Answered("token")
    /\ response.status = 403
    /\ NoTokenField(response)
    /\ pc = "done"

\* C5: a read answered 404, or with any other status outside 200..299, makes
\* the call return the read failure carrying that status; no PATCH.
C5_ReadNot2xx ==
    (Answered("read") /\ ~(response.status \in 200..299))
        => /\ pc = "done"
           /\ result.success = FALSE
           /\ result.error.prefix = "Failed to get order for ETag: "
           /\ result.error.status = <<response.status>>
           /\ ~SentPatch

C5_Witness == Answered("read") /\ response.status = 404 /\ pc = "done"

\* C6: the result follows from the PATCH status alone: success exactly for
\* 200 and 204 whatever the body; for any other status the failure carrying
\* the status code and the raw body.
C6_ResultByStatus ==
    (pc = "done" /\ Answered("patch"))
        => /\ result.success <=> response.status \in {200, 204}
           /\ ~(response.status \in {200, 204})
                 => /\ result.error.prefix = "Update failed: "
                    /\ result.error.status = <<response.status>>
                    /\ result.error.text = <<"text", response.data>>

\* C7: a PATCH answered 412 gives the write-rejected failure with status 412,
\* and nothing is retried: a call issues at most one token GET, one entity GET
\* and one PATCH, and nothing after a failure.
C7_NoRetry ==
    /\ CountOf(IsTokenGet) <= 1
    /\ CountOf(IsEntityGet) <= 1
    /\ CountOf(IsPatch) <= 1
    /\ (pc = "done" /\ ~got_token) => Len(log) = 1
    /\ (pc = "done" /\ Answered("read")) => Len(log) = 2
    /\ (pc = "done" /\ Answered("patch") /\ response.status = 412)
          => /\ Len(log) = 3
             /\ result.success = FALSE
             /\ result.error.prefix = "Update failed: "
             /\ result.error.status = <<412>>

\* C8: the stored cookie string is the Set-Cookie values, each cut at its
\* first ';', joined in response order with '; '.
CutAtSemicolon(s) ==
    LET k == CHOOSE n \in 0..Len(s) :
                /\ \A j \in 1..n : s[j] # ";"
                /\ n = Len(s) \/ s[n + 1] = ";"
    IN  SubSeq(s, 1, k)

ExpectedCookie(cl) ==
    LET f[i \in 0..Len(cl)] ==
            IF i = 0 THEN <<>>
            ELSE IF i = 1 THEN CutAtSemicolon(cl[1])
            ELSE f[i - 1] \o <<";", " ">> \o CutAtSemicolon(cl[i])
    IN  f[Len(cl)]

SetCookiesOf(resp) ==
    LET idx == {i \in DOMAIN resp.headers : resp.headers[i][1] = "Set-Cookie"}
        first == CHOOSE i \in idx : \A j \in idx : i <= j
    IN  IF idx = {} THEN <<>>
        ELSE [i \in 1..Cardinality(idx) |-> resp.headers[first + i - 1][2]]

C8_CookieJoin ==
    (Answered("token") /\ got_token /\ SetCookiesOf(response) # <<>>)
        => /\ cookies = ExpectedCookie(SetCookiesOf(response))
           /\ SetCookiesOf(response) = <<CookieA, CookieB>>
                 => cookies = <<"a", "=", "1", ";", " ", "b", "=", "2">>

C8_Witness ==
    /\ Answered("token")
    /\ got_token
    /\ SetCookiesOf(response) = <<CookieA, CookieB>>
    /\ cookies = <<"a", "=", "1", ";", " ", "b", "=", "2">>

\* C9 as stated: after any response with status 403 no token state is held.
C9_Original ==
    (response.for \in {"token", "read", "patch"} /\ response.status = 403)
        => (csrf_token = None /\ cookies = NoneText)

\* C9 as amended: a 403 never clears the token state: a 403 to the entity GET
\* or to the PATCH leaves csrf_token and cookies as they were, so does a 403
\* to the token GET that carries no token, and a stored token never becomes
\* absent; the next write re-acquires because the first request of every call
\* is the token GET.
C9_TokenStateKept ==
    [][/\ (log' # log /\ response'.for \in {"read", "patch"}
              /\ response'.status = 403)
          => UNCHANGED self_vars
       /\ (log' # log /\ response'.for = "token" /\ response'.status = 403
              /\ NoTokenField(response'))
          => UNCHANGED self_vars
       /\ csrf_token # None => csrf_token' # None
       /\ (log = <<>> /\ log' # <<>>) => IsTokenGet(log'[1])]_vars

C9_Witness ==
    /\ response.for \in {"token", "read", "patch"}
    /\ response.status = 403
    /\ csrf_token # None
    /\ cookies # NoneText

\* C10: the stamp in If-Match is the one the entity read of the same call
\* returned, also when earlier calls read other stamps; the token GET comes
\* first, then the entity GET, then the PATCH, with nothing in between.
C10_FreshStampInOrder ==
    [][IssuesPatch
          => /\ Answered("read")
             /\ IF StampSent(response) = None
                THEN ~HasHeader(log'[Len(log')].headers, "IfMatch")
                ELSE /\ HasHeader(log'[Len(log')].headers, "IfMatch")
                     /\ log'[Len(log')].headers.IfMatch = StampSent(response)
             /\ Len(log) = 2
             /\ IsTokenGet(log[1])
             /\ IsEntityGet(log[2])
             /\ log[2].url.key = log'[3].url.key]_vars

C10_Witness ==
    /\ pc = "done"
    /\ SentPatch
    /\ HasHeader(log[Len(log)].headers, "IfMatch")
    /\ earlier_stamps # {}
    /\ ~(log[Len(log)].headers.IfMatch \in earlier_stamps)

\* C14: two writers with an instance each read the same stamp and both send
\* their PATCH: at most one of them succeeds, the other returns the
\* write-rejected failure with status 412, and each call made one read and
\* one PATCH.
Other(t) == CHOOSE u \in Threads : u # t

C14_OneWinner ==
    (/\ ~shared
     /\ \A t \in Threads : calls[t].pc = "done" /\ calls[t].patch # NoRequest
     /\ calls[1].etag = calls[2].etag)
        => /\ ~(calls[1].result.success /\ calls[2].result.success)
           /\ \A t \in Threads :
                 /\ calls[t].reads = 1
                 /\ calls[t].patches = 1
                 /\ ~calls[t].result.success
                       => /\ calls[t].result.error.prefix = "Update failed: "
                          /\ calls[t].result.error.status = <<412>>

\* C15: a PATCH carries the token and the cookies the instance holds at the
\* moment it is built; with an instance per thread these are the ones the
\* call's own acquisition stored, with a shared instance they can be the ones
\* stored by the other call's acquisition.
SendsPatch(t) == calls'[t].patches = calls[t].patches + 1

C15_Separate ==
    ~shared =>
        \A t \in Threads :
            calls[t].patch # NoRequest
                => /\ calls[t].patch.headers.xcsrftoken = calls[t].own.csrf_token
                   /\ calls[t].patch.headers.Cookie = calls[t].own.cookies

C15_PatchUsesInstanceState ==
    /\ []C15_Separate
    /\ [][\A t \in Threads :
            SendsPatch(t)
                => /\ calls'[t].patch.headers.xcsrftoken
                         = writers[InstanceOf(t)].csrf_token
                   /\ calls'[t].patch.headers.Cookie
                         = writers[InstanceOf(t)].cookies]_vars

C15_Witness ==
    /\ shared
    /\ \E t \in Threads :
          /\ calls[t].patch # NoRequest
          /\ calls[t].patch.headers.xcsrftoken # calls[t].own.csrf_token
          /\ calls[t].patch.headers.xcsrftoken = calls[Other(t)].own.csrf_token

\* C11: csrf_token and cookies change only in the token acquisition step;
\* test_connection, read_sales_order, execute_odata_query, the entity read
\* and the PATCH leave them as they were, whatever the response.
C11_TokenStateFrame ==
    [][(csrf_token' # csrf_token \/ cookies' # cookies)
          => /\ pc = "token"
             /\ Len(log') = 1
             /\ IsTokenGet(log'[1])
             /\ aux' = NoAux]_vars

C11_Witness ==
    /\ aux.op \in {"test_connection", "read_sales_order", "execute_odata_query"}
    /\ csrf_token = "tokA"
    /\ cookies # NoneText

\* the value of the x-csrf-token field of a token response that has one
TokenField(resp) ==
    resp.headers[CHOOSE i \in DOMAIN resp.headers :
                    resp.headers[i][1] = "x-csrf-token"][2]

AcquisitionStep == pc = "token" /\ log' # log

\* C12 as stated: get_csrf_token never raises; without the x-csrf-token
\* header, or on a transport exception, it returns False and leaves the
\* token state unchanged; with the header present it stores the token and
\* returns True.
C12_Original ==
    [][AcquisitionStep
          => /\ result' \in {NoResult, TokenFailure}
             /\ (response'.for = "any"
                    \/ (response'.for = "token" /\ NoTokenField(response')))
                   => (~got_token' /\ UNCHANGED self_vars)
             /\ (response'.for = "token" /\ ~NoTokenField(response'))
                   => (got_token' /\ csrf_token' = TokenField(response'))]_vars

\* C12 as amended: the same, with an x-csrf-token header whose value is empty
\* counted as no token: absent or empty header, or transport exception, gives
\* False with the token state unchanged; a non-empty header is stored and
\* gives True.
C12_AcquireToken ==
    [][AcquisitionStep
          => /\ result' \in {NoResult, TokenFailure}
             /\ (response'.for = "any"
                    \/ (response'.for = "token"
                           /\ (NoTokenField(response')
                                  \/ TokenField(response') = "")))
                   => (~got_token' /\ UNCHANGED self_vars
                          /\ result' = TokenFailure)
             /\ (response'.for = "token" /\ ~NoTokenField(response')
                    /\ TokenField(response') # "")
                   => (got_token' /\ csrf_token' = TokenField(response')
                          /\ result' = NoResult)]_vars

C12_Witness ==
    /\ Answered("token")
    /\ ~NoTokenField(response)
    /\ TokenField(response) = ""
    /\ ~got_token
    /\ csrf_token = "tokA"

\* C13: every call ends with an explicit result, success or a failure with an
\* error text, and never with an exception; a transport failure at any of the
\* three requests gives a failure and ends the call, so that no request
\* follows it.
ExplicitResult(r) ==
    /\ "success" \in DOMAIN r
    /\ r.success \/ ("error" \in DOMAIN r /\ r.error.prefix # "")

C13_Ends ==
    /\ pc = "done" => ExplicitResult(result)
    /\ response = TransportError
          => /\ pc = "done"
             /\ ~result.success
             /\ Len(log) \in 1..3
             /\ Len(log) = 1 => result = TokenFailure
             /\ Len(log) > 1 => result.error.prefix = "TransportError"

C13_ExplicitOutcome ==
    /\ []C13_Ends
    /\ [][pc = "done" => (log' = log \/ log' = <<>>)]_vars
    /\ (pc \in {"token", "read", "patch"}) ~> (pc = "done")

C13_Witness ==
    /\ pc = "done"
    /\ response = TransportError
    /\ Len(log) = 2
    /\ result.error.prefix = "TransportError"

\* C16: a call of handler without session_id returns a result with a new
\* session_id, a call with session_id returns that session_id, and every
\* result carries the actor_id of the request.
IsRequest(p) == "prompt" \in DOMAIN p

C16_SessionReturned ==
    /\ [](IsRequest(payload)
            => /\ "session_id" \in DOMAIN handler_result
               /\ "actor_id" \in DOMAIN handler_result
               /\ handler_result.actor_id = RequestActor(payload)
               /\ Truthy(handler_result.session_id)
               /\ "session_id" \in DOMAIN payload
                     => handler_result.session_id = payload.session_id)
    /\ [][(handler_calls' = handler_calls + 1 /\ IsRequest(payload')
              /\ ~("session_id" \in DOMAIN payload'))
            => handler_result'.session_id # agent_state.session_id]_vars

\* C17: turns are keyed by (actor, session): turns stored during requests with
\* different actor or session are in different memory sessions, and the turns
\* loaded into the agent's prompt are those of the request's own actor and
\* session.
TurnKey(t) == [actor_id |-> t.actor_id, session_id |-> t.session_id]

C17_KeyedByActorSession ==
    /\ \A i, j \in DOMAIN memory :
          memory[i].request # memory[j].request
              => TurnKey(memory[i]) # TurnKey(memory[j])
    /\ IsRequest(payload)
          => \A i \in DOMAIN system_prompt :
                system_prompt[i].request
                    = [actor_id |-> RequestActor(payload),
                       session_id |-> RequestSession(payload)]

\* C18: a read answered 200 without an ETag, or with an empty one, is not an
\* error: the call then issues the PATCH, with the token and the cookies
\* attached and without If-Match.
C18_PatchWithoutStamp ==
    [][(pc = "patch" /\ Answered("read") /\ StampSent(response) = None)
          => /\ IssuesPatch
             /\ HasHeader(log'[Len(log')].headers, "xcsrftoken")
             /\ log'[Len(log')].headers.xcsrftoken = csrf_token
             /\ HasHeader(log'[Len(log')].headers, "Cookie")
             /\ log'[Len(log')].headers.Cookie # NoneText
             /\ ~HasHeader(log'[Len(log')].headers, "IfMatch")]_vars

\* C19: the read counts as failed only for statuses outside 200..299: after a
\* read answered with any 2xx status the call has not returned and goes on to
\* the PATCH.
C19_Read2xxGoesOn ==
    (Answered("read") /\ response.status \in 200..299)
        => (pc = "patch" /\ result = NoResult)

\* C20: every PATCH has the body {"DeliveryBlockReason": ""} and nothing of
\* the caller's reason or of the entity read; the reason only comes back in
\* the success result.
ReasonFree(req) ==
    /\ DOMAIN req.headers \subseteq
          {"Authorization", "ContentType", "Accept", "xcsrftoken", "Cookie",
           "IfMatch"}
    /\ \A h \in DOMAIN req.headers \ {"Cookie"} : ~(req.headers[h] \in Reasons)
    /\ DOMAIN req.url = {"path", "key", "query"}
    /\ req.url.query = ""

C20_PatchBody ==
    /\ \A i \in DOMAIN log :
          IsPatch(log[i]) => /\ log[i].body = <<"DeliveryBlockReason", "">>
                             /\ ReasonFree(log[i])
    /\ (pc = "done" /\ result.success) => result.reason = reason

C20_Witness ==
    /\ pc = "done"
    /\ SentPatch
    /\ reason = "Approved by agent"
    /\ result.success
    /\ log[Len(log)].body = <<"DeliveryBlockReason", "">>

\* C21: the tool returns the success message only when the PATCH was
\* answered 200 or 204; for every failure it returns a failure message with
\* the error of the result, which for a rejected write holds the status code
\* and the response body.
ToolMessages ==
    {ToolRemoveDeliveryBlock(result, order_id, reason),
     MetadataToolRemoveDeliveryBlock(result, order_id, reason)}

C21_ToolMessage ==
    pc = "done"
        => \A m \in ToolMessages :
              /\ m.kind = "success"
                    <=> (Answered("patch") /\ response.status \in {200, 204})
              /\ m.kind # "success"
                    => /\ m.kind = "failure"
                       /\ m.error = result.error
                       /\ m.error.prefix # ""
              /\ (Answered("patch") /\ ~(response.status \in {200, 204}))
                    => /\ m.error.status = <<response.status>>
                       /\ m.error.text = <<"text", response.data>>

\* C22: whatever the letter-casing of the ETag header name, a read answered
\* 200 leaves the stamp of the response in etag, and the PATCH that follows
\* sends it as If-Match.
ReadStep == pc = "read" /\ log' # log

C22_AnyCasing ==
    /\ [][(ReadStep /\ response'.for = "read" /\ response'.status = 200)
            => IF StampSent(response') = None
               THEN ~Truthy(etag')
               ELSE etag' = StampSent(response')]_vars
    /\ [](\A i \in DOMAIN log :
            (IsPatch(log[i]) /\ Truthy(etag))
                => /\ HasHeader(log[i].headers, "IfMatch")
                   /\ log[i].headers.IfMatch = etag)

C22_Witness ==
    /\ pc = "patch"
    /\ Answered("read")
    /\ response.headers # <<>>
    /\ response.headers[1][1] = "ETAG"
    /\ etag = "W/def456"
    /\ response.headers[1][2] = etag

\* C24 as stated: after a successful acquisition the stored cookies are those
\* of the response that carried the token: none when it carried no Set-Cookie.
C24_Original ==
    [][(AcquisitionStep /\ got_token')
          => cookies' = IF SetCookiesOf(response') = <<>>
                        THEN NoneText
                        ELSE ExpectedCookie(SetCookiesOf(response'))]_vars

\* C24 as amended: after a successful acquisition the stored token is the one
\* of the response, and the stored cookies are those of the response when it
\* carries Set-Cookie; when it carries none, the cookies stored before stay,
\* paired with the new token.
C24_CookiesOfLastSetCookie ==
    [][(AcquisitionStep /\ got_token')
          => /\ response'.for = "token"
             /\ ~NoTokenField(response')
             /\ csrf_token' = TokenField(response')
             /\ cookies' = IF SetCookiesOf(response') = <<>>
                           THEN cookies
                           ELSE ExpectedCookie(SetCookiesOf(response'))]_vars

C24_Witness ==
    /\ Answered("token")
    /\ got_token
    /\ SetCookiesOf(response) = <<>>
    /\ csrf_token = "tokB"
    /\ cookies # NoneText

\* C25: the x-csrf-token of a PATCH is the token returned by the acquisition
\* of the same call: the acquisition that lets the call go on stores the
\* token of its response, nothing changes it before the PATCH, and no PATCH
\* follows an acquisition that failed, whatever token was left by earlier
\* calls.
C25_TokenOfThisCall ==
    /\ [][(AcquisitionStep /\ got_token')
            => /\ response'.for = "token"
               /\ ~NoTokenField(response')
               /\ csrf_token' = TokenField(response')]_vars
    /\ [][(pc \in {"read", "patch"}) => (csrf_token' = csrf_token)]_vars
    /\ [](\A i \in DOMAIN log :
            IsPatch(log[i])
                => /\ got_token
                   /\ HasHeader(log[i].headers, "xcsrftoken")
                   /\ log[i].headers.xcsrftoken = csrf_token)
    /\ []((pc \in {"read", "patch"}) => got_token)

C25_Witness ==
    /\ pc = "done"
    /\ earlier_stamps # {}
    /\ SentPatch
    /\ log[Len(log)].headers.xcsrftoken = "tokB"
    /\ csrf_token = "tokB"

\* C26: the entity GET and the PATCH of a call address the same key: the
\* order id without its 'SO' occurrences and without the blanks around it.
KeptPositions(o) ==
    {i \in DOMAIN o :
        /\ ~(o[i] = "S" /\ i < Len(o) /\ o[i + 1] = "O")
        /\ ~(o[i] = "O" /\ i > 1 /\ o[i - 1] = "S")}

OrderKey(o) ==
    LET kept == KeptPositions(o)
        inner == {i \in kept : o[i] # " "}
        lo == CHOOSE i \in inner : \A j \in inner : i <= j
        hi == CHOOSE i \in inner : \A j \in inner : j <= i
        span == {i \in kept : lo <= i /\ i <= hi}
        nth[k \in 1..Cardinality(span)] ==
            CHOOSE i \in span : Cardinality({j \in span : j <= i}) = k
    IN  IF inner = {} THEN <<>>
        ELSE [k \in 1..Cardinality(span) |-> o[nth[k]]]

C26_SameKey ==
    \A i, j \in DOMAIN log :
        (IsEntityGet(log[i]) /\ IsPatch(log[j]))
            => /\ log[i].url.path = log[j].url.path
               /\ log[i].url.key = log[j].url.key
               /\ log[j].url.key = OrderKey(order_id)

C26_Witness ==
    /\ SentPatch
    /\ order_id = <<" ", "7", "S", "O">>
    /\ log[2].url.key = <<"7">>
    /\ log[3].url.key = <<"7">>

\* C27: driven by the same order id and the same responses, the two copies of
\* WorkingSAPService have sent the same requests, hold the same csrf_token and
\* cookies and have returned the same result.
C27_CopiesAgree ==
    /\ lab.log = md.log
    /\ lab.csrf_token = md.csrf_token
    /\ lab.cookies = md.cookies
    /\ lab.pc = md.pc
    /\ lab.etag = md.etag
    /\ lab.result = md.result

C27_Witness ==
    /\ lab.pc = "done"
    /\ md.pc = "done"
    /\ Len(lab.log) = 3
    /\ Len(md.log) = 3
    /\ IsPatch(md.log[3])
    /\ lab.result.success
    /\ md.result.success

\* C23 as stated: the turns a call of handler appends to the memory session
\* are the messages added during the call whose first block has a text that is
\* not empty, each once and in the order added, USER for role 'user' and
\* ASSISTANT otherwise.
HasText(m) ==
    /\ m.content # <<>>
    /\ "text" \in DOMAIN m.content[1]
    /\ m.content[1].text # ""

\* the k-th smallest position of the set T
Nth(T, k) == CHOOSE i \in T : Cardinality({j \in T : j < i}) = k - 1

\* the turns from position old + 1 of after are the messages at the positions T
AppendsExactly(before, after, msgs, T) ==
    /\ Len(after) = Len(before) + Cardinality(T)
    /\ SubSeq(after, 1, Len(before)) = before
    /\ \A k \in 1..Cardinality(T) :
          /\ after[Len(before) + k].text = msgs[Nth(T, k)].content[1].text
          /\ after[Len(before) + k].role = "USER" <=> msgs[Nth(T, k)].role = "user"
          /\ after[Len(before) + k].role \in {"USER", "ASSISTANT"}

C23_Original ==
    [][(handler_calls' = handler_calls + 1 /\ IsRequest(payload'))
          => AppendsExactly(memory, memory', messages',
                            {i \in DOMAIN messages' : HasText(messages'[i])})]_vars

\* C23 (amended): the turns a call of handler appends are the messages with a
\* text whose add_turns did not raise, each once, in the order added and with
\* the role of the message; a message without text, and a message whose
\* add_turns raised, is not appended, and the messages after it still are.
C23_StoredInOrder ==
    [][(handler_calls' = handler_calls + 1 /\ IsRequest(payload'))
          => AppendsExactly(memory, memory', messages',
                            {i \in DOMAIN messages' :
                                HasText(messages'[i]) /\ ~(i \in store_failed')})]_vars

C23_Witness ==
    /\ Len(messages) = 4
    /\ store_failed = {1}
    /\ HasText(messages[1])
    /\ ~HasText(messages[2])
    /\ memory # <<>>
    /\ memory[Len(memory)].role = "ASSISTANT"
    /\ memory[Len(memory)].text = messages[4].content[1].text
    /\ \E i \in DOMAIN memory : memory[i].role = "USER"

\* C30: every call of handler returns a mapping with the key 'response': the
\* agent's last message when the agent replied, whether or not add_turns
\* raised during the call and whether or not the turns could be loaded at
\* start-up, and an error text when the agent or a tool raised or the payload
\* was no mapping.
AgentReplied ==
    /\ messages # <<>>
    /\ messages[Len(messages)].role = "assistant"
    /\ HasText(messages[Len(messages)])

C30_AlwaysResponse ==
    (payload # NoPayload)
        => /\ DOMAIN handler_result = {"response"}
           /\ (IsRequest(payload) /\ AgentReplied)
                 => handler_result.response = messages[Len(messages)]
           /\ (IsRequest(payload) /\ ~AgentReplied)
                 => /\ DOMAIN handler_result.response = {"error"}
                    /\ handler_result.response.error
                          = "Error processing message with memory: "
           /\ ~IsRequest(payload)
                 => /\ DOMAIN handler_result.response = {"error"}
                    /\ handler_result.response.error = "Error: "

C30_Witness ==
    /\ IsRequest(payload)
    /\ AgentReplied
    /\ store_failed # {}
    /\ Len(messages) \in store_failed
    /\ handler_result.response = messages[Len(messages)]

\* C28 as stated: fetch_metadata returns True exactly when the metadata GET
\* was answered with status 200, and the construction raises exactly when it
\* returned False.
MetadataStatus200 ==
    /\ metadata_response.for = "metadata"
    /\ metadata_response.status = 200

NavNames == {<<"x">>, <<"y">>}

NamedIn(E, N) ==
    {i \in DOMAIN entities[E].navigation_properties :
        entities[E].navigation_properties[i].name = N}

C29_MappingsAgree ==
    \A E \in EntityNames, N \in NavNames :
        /\ (LookupKey(E, N) \in DOMAIN navigation_properties)
              <=> (E \in DOMAIN entities /\ NamedIn(E, N) # {})
        /\ (E \in DOMAIN entities /\ Cardinality(NamedIn(E, N)) = 1)
              => \A i \in NamedIn(E, N) :
                    /\ LookupKey(E, N) \in DOMAIN navigation_properties
                    /\ entities[E].navigation_properties[i].relationship
                          = navigation_properties[LookupKey(E, N)].relationship
                    /\ entities[E].navigation_properties[i].to_role
                          = navigation_properties[LookupKey(E, N)].to_role

====
